---- MODULE Spec2Model ----
(***************************************************************************)
(* Model of rest-sequelize: RestService (lib/rest-service.js) and the      *)
(* RestAdapter entries that reach it (lib/rest-adapter.js), against a      *)
(* store with two tables, User (hasMany Task) and Task (belongsTo User),   *)
(* as declared in test/models.                                             *)
(*                                                                         *)
(* Spec         persist and the transaction wrapper, called directly or    *)
(*              through RestAdapter.create                                 *)
(* OpsSpec      delete, deleteAll, transaction(work) and the sub-resource  *)
(*              operations                                                 *)
(* HandlerSpec  resolveAssociationHandler as a function of its inputs      *)
(* PopulateSpec populate on one query object, called repeatedly            *)
(* UpdateSpec   RestAdapter.update and the persist it executes             *)
(* ServiceSpec one call of any operation of Spec or OpsSpec                *)
(* ConcurrentSpec  several persist calls interleaved on one service        *)
(* ResolverSpec lookups of the Resolver (lib/resolver.js) and clearCache   *)
(*                                                                         *)
(* The store keeps committed rows in db; the writes of the open            *)
(* transaction are the overlay txw and the removals txdel, applied to db   *)
(* by commit and dropped by rollback.  A write issued without a            *)
(* transaction option goes to db at once.  Every asynchronous store        *)
(* operation may fail.                                                     *)
(***************************************************************************)
EXTENDS Integers, Sequences, FiniteSets, TLC

VARIABLES
    db,        \* committed rows: [User: id -> row, Task: id -> row]
    txState,   \* "none", "open", "committed", "commitFailed", "rolledback", "rollbackFailed"
    txw,       \* rows written inside the transaction, same shape as db
    call,      \* the call in progress: [entry, model, data]
    pc,        \* position of the call
    instance,  \* the root instance built by persist
    tasks,     \* the task list of persist, in execution order
    idx,       \* index of the task `sequence` runs next
    entries,   \* state of each per-entry task of the to-many batch
    err,       \* the error handed to rollback(error)
    result,    \* the promise returned to the caller
    ops,       \* log: the store operations issued by the call
    faulted,   \* log: some store operation of the call has failed
    txdel,     \* rows removed inside the transaction: [User: ids, Task: ids]
    value,     \* the value the promise resolves with (calls other than persist)
    resolver,  \* the Resolver: its _cache and a log of its resolve calls
    calls,     \* concurrent persist calls on one service, each with its own closure
    txs        \* the transactions sequelize has handed out, by handle

vars == <<db, txState, txw, call, pc, instance, tasks, idx, entries, err, result, ops, faulted,
          txdel, value, resolver, calls, txs>>

-----------------------------------------------------------------------------
(* Values *)

\* Longest to-many list a payload carries.
MaxEntries == 2

NoId == 0            \* an absent / undefined / NULL identifier
NoName == "-"        \* an absent attribute

\* Related ids a payload may name: 1 exists (linked), 9 matches no row.
ObjIds == {1, 9}
\* Bare identifiers of a to-many list: existing rows, 1 linked and 2 unlinked.
BareIds == {1, 2}
\* Bare identifiers of a to-one value.
ScalarIds == {1, 9}
\* Root ids of a payload: absent (insert) or an existing row (update).
RootIds == {NoId, 1}
PayloadNames == {NoName, "b"}

\* The rows the store holds before the call.
Seed ==
    [User |-> (1 :> [name |-> "a", fk |-> NoId]) @@ (2 :> [name |-> "a", fk |-> NoId]),
     Task |-> (1 :> [name |-> "a", fk |-> 1]) @@ (2 :> [name |-> "a", fk |-> NoId])]

EmptyTable == [i \in {} |-> [name |-> NoName, fk |-> NoId]]
NoWrites == [User |-> EmptyTable, Task |-> EmptyTable]
NoRemovals == [User |-> {}, Task |-> {}]

\* One related value of a payload: a bare number, a numeric string or an object.
ObjEntries == [kind : {"obj"}, id : {NoId} \cup ObjIds, name : PayloadNames]
ListEntries == [kind : {"num"}, id : BareIds, name : {NoName}] \cup ObjEntries
ScalarEntries == [kind : {"num", "str"}, id : ScalarIds, name : {NoName}]

RECURSIVE SeqsUpTo(_, _)
SeqsUpTo(S, n) ==
    IF n = 0 THEN {<<>>}
    ELSE LET shorter == SeqsUpTo(S, n - 1)
         IN  shorter \cup {Append(s, e) : s \in {t \in shorter : Len(t) = n - 1}, e \in S}

Absent == [shape |-> "absent", items |-> <<>>]

\* data[association.as] for a User payload (Tasks) and a Task payload (User).
UserRels == {Absent} \cup {[shape |-> "array", items |-> s] : s \in SeqsUpTo(ListEntries, MaxEntries)}
TaskRels == {Absent} \cup {[shape |-> "single", items |-> <<e>>] : e \in ScalarEntries \cup ObjEntries}

Payloads(model) ==
    [id : RootIds, name : PayloadNames, rel : IF model = "User" THEN UserRels ELSE TaskRels]

Models == {"User", "Task"}

\* model.associations of test/models: User.hasMany(Task), Task.belongsTo(User).
Associations(model) ==
    IF model = "User"
    THEN <<[associationType |-> "HasMany", as |-> "Tasks", target |-> "Task"]>>
    ELSE <<[associationType |-> "BelongsTo", as |-> "User", target |-> "User"]>>

-----------------------------------------------------------------------------
(* Errors *)

NoError == [kind |-> "none", carries |-> {}]
\* A failure of the store (constraint violation, lost connection, ...).
StoreError(name) == [kind |-> "StoreError", carries |-> {name}]
\* errors.BadRequestError of normalizePayload.
BadRequestError == [kind |-> "BadRequestError", carries |-> {}]
\* errors.NotFoundError of findOne and resolveSubresourceInstance.
NotFoundError == [kind |-> "NotFoundError", carries |-> {}]
\* new errors.DatabaseError(e, 'Transaction rollback failure'): wraps e.
DatabaseError(e) == [kind |-> "DatabaseError", carries |-> e.carries]

Pending == [state |-> "pending", error |-> NoError]
Resolved == [state |-> "resolved", error |-> NoError]
Rejected(e) == [state |-> "rejected", error |-> e]

\* No module: what resolve returns when it finds nothing (undefined).
NoModule == 0
\* Resolver.init: this._cache = {}; no resolve call made yet.
NewResolver == [cache |-> [k \in {} |-> NoModule], resolved |-> <<>>]

\* What a promise resolves with: nothing yet, a number of rows, or records
\* (ids of the rows they stand for).
NoValue == [kind |-> "none", count |-> 0, records |-> {}]
Count(n) == [kind |-> "count", count |-> n, records |-> {}]
Records(ids) == [kind |-> "records", count |-> 0, records |-> ids]

-----------------------------------------------------------------------------
(* lodash and JavaScript helpers, as persist uses them *)

\* _.isEmpty(data[association.as]): true for undefined, for any number, for an
\* object without keys and for an empty array; false for a non-empty string.
IsEmpty(rel) ==
    \/ rel.shape = "absent"
    \/ rel.shape = "array" /\ Len(rel.items) = 0
    \/ rel.shape = "single" /\ LET e == rel.items[1]
                               IN  \/ e.kind = "num"
                                   \/ e.kind = "obj" /\ e.id = NoId /\ e.name = NoName

\* _.isEmpty(payload) of normalizePayload: an object without keys.
IsEmptyPayload(data) ==
    data.id = NoId /\ data.name = NoName /\ data.rel.shape = "absent"

\* isNaN(hash): a number or a numeric string converts to a number, an object does not.
IsNaN(hash) == hash.kind = "obj"

\* The number a bare identifier denotes (a numeric string is converted by the column).
ToNumber(hash) == hash.id

Max(S) == CHOOSE m \in S : \A x \in S : x <= m

\* The primary key an insert into `rows` is given (autoincrement).
NextId(rows) == IF DOMAIN rows = {} THEN 1 ELSE Max(DOMAIN rows) + 1

-----------------------------------------------------------------------------
(* The store *)

\* The rows of `table` a query of the open transaction sees.
View(table) == IF txState = "open" THEN txw[table] @@ db[table] ELSE db[table]

\* Model.create(data, {transaction}): a new row, written inside the transaction.
Insert(w, table, id, row) == [w EXCEPT ![table] = (id :> row) @@ @]

\* Model.update(data, {transaction, where: {id}}): the keys present in data
\* overwrite the row's; no row matched is no error.
Update(w, table, rows, hash) ==
    IF hash.id \in DOMAIN rows
    THEN Insert(w, table, hash.id,
                [name |-> IF hash.name # NoName THEN hash.name ELSE rows[hash.id].name,
                 fk   |-> IF hash.fk # NoId THEN hash.fk ELSE rows[hash.id].fk])
    ELSE w

\* instance[association.accessors.set]([id]), called without a transaction option:
\* it works on the committed rows; it reads the root's linked rows (seen), then
\* unlinks those of them that are not in the list and links the listed row.
SetAccessor(d, seen, rootId, id) ==
    [d EXCEPT !.Task = [k \in DOMAIN @ |->
        IF k = id THEN [@[k] EXCEPT !.fk = rootId]
        ELSE IF k \in DOMAIN seen.Task /\ seen.Task[k].fk = rootId THEN [@[k] EXCEPT !.fk = NoId]
        ELSE @[k]]]

\* t.commit(): the rows written inside the transaction become the committed rows.
Committed(d, w) == [table \in DOMAIN d |-> w[table] @@ d[table]]

\* t.commit(): the rows removed inside the transaction leave the committed rows.
Removed(d, dels) ==
    [table \in DOMAIN d |-> [k \in DOMAIN d[table] \ dels[table] |-> d[table][k]]]

-----------------------------------------------------------------------------
(* RestService *)

\* Variant of Hash that leaves the foreign key out of the entry (C3 depends on Hash).
HashWithoutForeignKey(e, fk) == [id |-> e.id, name |-> e.name, fk |-> NoId]

\* The hash a handler receives: the entry and the foreign key persistHasMany set on it.
Hash(e, fk) == [id |-> e.id, name |-> e.name, fk |-> fk]

\* resolveAssociationHandler(name, id), for the default service.
resolveAssociationHandler(name, id) ==
    IF id = NoId THEN "createAssociation" ELSE "updateAssociation"

\* createAssociation(model, data, transaction): returns the overlay and the record's id.
createAssociation(w, target, rows, hash) ==
    LET id == NextId(rows)
    IN  [txw |-> Insert(w, target, id, [name |-> hash.name, fk |-> hash.fk]), id |-> id]

\* Variant of updateAssociation that overwrites every attribute, absent ones
\* included (C6 depends on updateAssociation).
updateAssociationOverwrite(w, target, rows, hash) ==
    [txw |-> IF hash.id \in DOMAIN rows
             THEN Insert(w, target, hash.id, [name |-> hash.name, fk |-> hash.fk])
             ELSE w,
     id |-> NoId]

\* Variant of updateAssociation that inserts the row when none matches (C8
\* depends on updateAssociation).
updateAssociationUpsert(w, target, rows, hash) ==
    [txw |-> IF hash.id \in DOMAIN rows
             THEN Update(w, target, rows, hash)
             ELSE Insert(w, target, hash.id, [name |-> hash.name, fk |-> hash.fk]),
     id |-> NoId]

\* updateAssociation(model, data, transaction): resolves with a count, no record.
updateAssociation(w, target, rows, hash) ==
    [txw |-> Update(w, target, rows, hash), id |-> NoId]

\* persistAssociation(association, hash)(transaction)
persistAssociation(w, target, rows, hash) ==
    IF resolveAssociationHandler(target, hash.id) = "createAssociation"
    THEN createAssociation(w, target, rows, hash)
    ELSE updateAssociation(w, target, rows, hash)

\* model.build(data, {isNewRecord: !data.id})
Build(data) ==
    [isNewRecord |-> data.id = NoId, id |-> data.id, name |-> data.name, fk |-> NoId]

\* persistBelongsTo and persistHasMany return a task or nothing.
persistBelongsTo(rel) == ~IsEmpty(rel)
persistHasMany(rel) == ~IsEmpty(rel) /\ rel.shape = "array"

\* persist: the save task, then one task per association that yields one,
\* a BelongsTo task put in front and any other appended.
RECURSIVE CollectTasks(_, _, _)
CollectTasks(ts, assocs, data) ==
    IF assocs = <<>> THEN ts
    ELSE LET a == Head(assocs)
             yields == IF a.associationType = "BelongsTo"
                       THEN persistBelongsTo(data.rel) ELSE persistHasMany(data.rel)
             next == IF ~yields THEN ts
                     ELSE IF a.associationType = "BelongsTo"
                          THEN <<a.associationType>> \o ts
                          ELSE Append(ts, a.associationType)
         IN  CollectTasks(next, Tail(assocs), data)

\* Variant of PersistTasks that appends every association task after the save.
PersistTasksAppended(model, data) ==
    <<"Save">> \o SelectSeq(CollectTasks(<<>>, Associations(model), data), LAMBDA t : TRUE)

PersistTasks(model, data) == CollectTasks(<<"Save">>, Associations(model), data)

\* The store operation the task of one to-many entry issues.
EntryOp(e) ==
    IF ~IsNaN(e) THEN "set"
    ELSE IF resolveAssociationHandler("Task", e.id) = "createAssociation"
         THEN "create:Task" ELSE "update:Task"

\* The store operation of the to-one task ("none": it only sets the foreign key).
BelongsToOp(e) ==
    IF ~IsNaN(e) THEN "none"
    ELSE IF resolveAssociationHandler("User", e.id) = "createAssociation"
         THEN "create:User" ELSE "update:User"

\* Variant of RollbackRejection that rejects with the original error whatever
\* the rollback did (C10 depends on RollbackRejection).
RollbackRejectionOriginal(ok, error, e) == error

\* Variant of RollbackRejection that wraps the original error too (C11 depends
\* on RollbackRejection).
RollbackRejectionWrapped(ok, error, e) == DatabaseError(IF ok THEN error ELSE e)

\* The rejection of the outer promise once t.rollback() has settled.
RollbackRejection(ok, error, e) ==
    IF ok THEN error ELSE DatabaseError(e)

\* instance.save({transaction}): an insert for a new record, else an update of
\* the row with the instance's id.  Returns the overlay and the saved instance.
Save(w, model, rows, inst) ==
    IF inst.isNewRecord
    THEN LET id == NextId(rows)
         IN  [txw |-> Insert(w, model, id, [name |-> inst.name, fk |-> inst.fk]),
              instance |-> [inst EXCEPT !.id = id, !.isNewRecord = FALSE]]
    ELSE [txw |-> Update(w, model, rows, [id |-> inst.id, name |-> inst.name, fk |-> inst.fk]),
          instance |-> inst]

\* Variant of BelongsToTask that takes the foreign key from the hash alone and
\* ignores the created record (C2 depends on BelongsToTask).
BelongsToTaskHashKeyOnly(w, rows, inst, e) ==
    IF ~IsNaN(e)
    THEN [txw |-> w, instance |-> [inst EXCEPT !.fk = ToNumber(e)]]
    ELSE [txw |-> persistAssociation(w, "User", rows, Hash(e, NoId)).txw,
          instance |-> [inst EXCEPT !.fk = e.id]]

\* The task persistBelongsTo returns, once its store operation has succeeded.
BelongsToTask(w, rows, inst, e) ==
    IF ~IsNaN(e)
    THEN [txw |-> w, instance |-> [inst EXCEPT !.fk = ToNumber(e)]]
    ELSE LET r == persistAssociation(w, "User", rows, Hash(e, NoId))
         IN  [txw |-> r.txw,
              instance |-> [inst EXCEPT !.fk = IF e.id # NoId THEN e.id ELSE r.id]]

-----------------------------------------------------------------------------
(* The call *)

EmptyData == [id |-> NoId, name |-> NoName, rel |-> Absent]

Init ==
    /\ db = Seed
    /\ txState = "none"
    /\ txw = NoWrites
    /\ call = [entry |-> "none", model |-> "User", data |-> EmptyData]
    /\ pc = "idle"
    /\ instance = Build(EmptyData)
    /\ tasks = <<>>
    /\ idx = 0
    /\ entries = <<>>
    /\ err = NoError
    /\ result = Pending
    /\ ops = {}
    /\ faulted = FALSE
    /\ resolver = NewResolver
    /\ calls = <<>>
    /\ txs = <<>>
    /\ txdel = NoRemovals
    /\ value = NoValue

Items == call.data.rel.items

\* sequence(tasks, transaction) moves on; after the last task commit is called.
LastTask == idx = Len(tasks)
AfterTask == IF LastTask THEN "commit" ELSE "seq"
CommitOp == IF LastTask THEN {"commit"} ELSE {}

\* persist up to the call of sequelize.transaction().
StartPersist(model, data) ==
    /\ call' = [entry |-> "persist", model |-> model, data |-> data]
    /\ instance' = Build(data)
    /\ tasks' = PersistTasks(model, data)
    /\ idx' = 1
    /\ ops' = {"build", "begin"}
    /\ pc' = "begin"
    /\ UNCHANGED <<db, txState, txw, entries, err, result, faulted, txdel, value,
                   resolver, calls, txs>>

\* RestService.persist(model, data), called directly.
Persist(model, data) ==
    /\ pc = "idle"
    /\ StartPersist(model, data)

\* Variant of normalizePayload that tests payload[type] instead of the payload
\* (C9 depends on normalizePayload).
normalizePayloadKeyed(data, wrapped) ==
    IF ~wrapped \/ IsEmptyPayload(data) THEN "BadRequest" ELSE "data"

\* normalizePayload(type, payload): throws on an empty payload, else yields
\* payload[key] when the payload is wrapped and the payload itself when not.
normalizePayload(data, wrapped) ==
    IF ~wrapped /\ IsEmptyPayload(data) THEN "BadRequest" ELSE "data"

\* RestAdapter.create(type, payload): _execute('persist', type, data) unless
\* normalizePayload threw.
AdapterCreate(model, data, wrapped) ==
    /\ pc = "idle"
    /\ IF normalizePayload(data, wrapped) = "BadRequest"
       THEN /\ call' = [entry |-> "create", model |-> model, data |-> data]
            /\ result' = Rejected(BadRequestError)
            /\ pc' = "done"
            /\ UNCHANGED <<db, txState, txw, instance, tasks, idx, entries, err, ops, faulted,
                           txdel, value,
                   resolver, calls, txs>>
       ELSE StartPersist(model, data)

\* sequelize.transaction() resolves with t.
BeginOk ==
    /\ pc = "begin"
    /\ txState' = "open"
    /\ txw' = NoWrites
    /\ txdel' = NoRemovals
    /\ pc' = IF call.entry = "persist" THEN "seq" ELSE "work"
    /\ UNCHANGED <<db, call, instance, tasks, idx, entries, err, result, ops, faulted, value,
                   resolver, calls, txs>>

\* sequelize.transaction() rejects: nothing handles it, the promise stays pending.
BeginFail ==
    /\ pc = "begin"
    /\ pc' = "hung"
    /\ faulted' = TRUE
    /\ UNCHANGED <<db, txState, txw, call, instance, tasks, idx, entries, err, result, ops,
                   txdel, value,
                   resolver, calls, txs>>

\* The to-one task, first in the list.
RunBelongsTo(ok) ==
    /\ pc = "seq"
    /\ tasks[idx] = "BelongsTo"
    /\ LET e == Items[1]
           op == BelongsToOp(e)
           r == BelongsToTask(txw, View("User"), instance, e)
       IN  /\ op = "none" => ok
           /\ IF ok
              THEN /\ txw' = r.txw
                   /\ instance' = r.instance
                   /\ idx' = idx + 1
                   /\ pc' = AfterTask
                   /\ ops' = (ops \cup ({op} \ {"none"})) \cup CommitOp
                   /\ UNCHANGED <<err, faulted>>
              ELSE /\ pc' = "rollback"
                   /\ err' = StoreError(op)
                   /\ faulted' = TRUE
                   /\ ops' = ops \cup {op, "rollback"}
                   /\ UNCHANGED <<txw, instance, idx>>
    /\ UNCHANGED <<db, txState, call, tasks, entries, result, txdel, value,
                   resolver, calls, txs>>

\* The save task of the root.
RunSave(ok) ==
    /\ pc = "seq"
    /\ tasks[idx] = "Save"
    /\ LET r == Save(txw, call.model, View(call.model), instance)
       IN  IF ok
           THEN /\ txw' = r.txw
                /\ instance' = r.instance
                /\ idx' = idx + 1
                /\ pc' = AfterTask
                /\ ops' = (ops \cup {"save"}) \cup CommitOp
                /\ UNCHANGED <<err, faulted>>
           ELSE /\ pc' = "rollback"
                /\ err' = StoreError("save")
                /\ faulted' = TRUE
                /\ ops' = ops \cup {"save", "rollback"}
                /\ UNCHANGED <<txw, instance, idx>>
    /\ UNCHANGED <<db, txState, call, tasks, entries, result, txdel, value,
                   resolver, calls, txs>>

\* The to-many task: parallel(tasks, transaction) starts every entry task.
StartHasMany ==
    /\ pc = "seq"
    /\ tasks[idx] = "HasMany"
    /\ entries' = [i \in 1..Len(Items) |-> "pending"]
    /\ ops' = ops \cup {EntryOp(Items[i]) : i \in 1..Len(Items)}
    /\ pc' = "par"
    /\ UNCHANGED <<db, txState, txw, call, instance, tasks, idx, err, result, faulted,
                   txdel, value,
                   resolver, calls, txs>>

\* The committed rows the read of a set accessor may return: the entry tasks of
\* a batch run concurrently, so the read happens before or after the writes of
\* the other entries (before the batch the call has written no committed row).
SeenBySet == {Seed, db}

\* Variant of BatchFulfilled that fulfils the batch with its first entry.
BatchFulfilledByAny(i) == TRUE

\* parallel(tasks, transaction) fulfils when entry i does and all others have.
BatchFulfilled(i) == \A j \in DOMAIN entries : j # i => entries[j] = "ok"

\* The store operation of entry i settles.  The first failure rejects the batch
\* and calls rollback while the other entries are still in flight.
CompleteEntry(i, ok) ==
    /\ call.entry = "persist"
    /\ pc \in {"par", "rollback", "done"}
    /\ i \in DOMAIN entries
    /\ entries[i] = "pending"
    /\ LET e == Items[i]
           op == EntryOp(e)
       IN  /\ (ok /\ op # "set") => txState = "open"
           /\ \E seen \in SeenBySet :
                 db' = IF ok /\ op = "set"
                       THEN SetAccessor(db, seen, instance.id, ToNumber(e)) ELSE db
           /\ txw' = IF ok /\ op # "set"
                     THEN persistAssociation(txw, "Task", View("Task"), Hash(e, instance.id)).txw
                     ELSE txw
           /\ entries' = [entries EXCEPT ![i] = IF ok THEN "ok" ELSE "failed"]
           /\ faulted' = (faulted \/ ~ok)
           /\ IF pc # "par"
              THEN UNCHANGED <<pc, idx, err, ops>>
              ELSE IF ~ok
                   THEN /\ pc' = "rollback"
                        /\ err' = StoreError(op)
                        /\ ops' = ops \cup {"rollback"}
                        /\ UNCHANGED idx
                   ELSE IF BatchFulfilled(i)
                        THEN /\ pc' = AfterTask
                             /\ idx' = idx + 1
                             /\ ops' = ops \cup CommitOp
                             /\ UNCHANGED err
                        ELSE UNCHANGED <<pc, idx, err, ops>>
    /\ UNCHANGED <<txState, call, instance, tasks, result, txdel, value,
                   resolver, calls, txs>>

\* Variant of Commit that hands a failed commit to rollback.
CommitRollsBack(ok) ==
    /\ pc = "commit"
    /\ IF ok
       THEN /\ db' = Removed(Committed(db, txw), txdel)
            /\ txState' = "committed"
            /\ result' = Resolved
            /\ pc' = "done"
            /\ txw' = NoWrites
            /\ txdel' = NoRemovals
            /\ UNCHANGED <<faulted, err>>
       ELSE /\ pc' = "rollback"
            /\ err' = StoreError("commit")
            /\ faulted' = TRUE
            /\ UNCHANGED <<db, txState, result, txw, txdel>>
    /\ UNCHANGED <<call, instance, tasks, idx, entries, ops, value, resolver, calls, txs>>

\* commit(result): t.commit().then(resolve, reject)
Commit(ok) ==
    /\ pc = "commit"
    /\ pc' = "done"
    /\ IF ok
       THEN /\ db' = Removed(Committed(db, txw), txdel)
            /\ txState' = "committed"
            /\ result' = Resolved
            /\ UNCHANGED faulted
       ELSE /\ txState' = "commitFailed"
            /\ result' = Rejected(StoreError("commit"))
            /\ faulted' = TRUE
            /\ UNCHANGED db
    /\ txw' = NoWrites
    /\ txdel' = NoRemovals
    /\ UNCHANGED <<call, instance, tasks, idx, entries, err, ops, value,
                   resolver, calls, txs>>

\* Variant of Rollback after which the writes made on the handle are kept.
RollbackKeepsWrites(ok) ==
    /\ pc = "rollback"
    /\ pc' = "done"
    /\ txState' = IF ok THEN "rolledback" ELSE "rollbackFailed"
    /\ db' = Committed(db, txw)
    /\ txw' = NoWrites
    /\ result' = Rejected(RollbackRejection(ok, err, StoreError("rollback")))
    /\ txdel' = NoRemovals
    /\ faulted' = TRUE
    /\ UNCHANGED <<call, instance, tasks, idx, entries, err, ops, value, resolver, calls, txs>>

\* rollback(error): t.rollback().then(reject(error), reject(DatabaseError(e)))
Rollback(ok) ==
    /\ pc = "rollback"
    /\ pc' = "done"
    /\ txState' = IF ok THEN "rolledback" ELSE "rollbackFailed"
    /\ txw' = NoWrites
    /\ result' = Rejected(RollbackRejection(ok, err, StoreError("rollback")))
    /\ txdel' = NoRemovals
    /\ faulted' = TRUE
    /\ UNCHANGED <<db, call, instance, tasks, idx, entries, err, ops, value,
                   resolver, calls, txs>>

Next ==
    \/ pc = "idle" /\ \E model \in Models : \E data \in Payloads(model) : Persist(model, data)
    \/ pc = "idle" /\ \E model \in Models : \E data \in Payloads(model) :
          \E wrapped \in BOOLEAN : AdapterCreate(model, data, wrapped)
    \/ BeginOk
    \/ BeginFail
    \/ \E ok \in BOOLEAN : RunBelongsTo(ok)
    \/ \E ok \in BOOLEAN : RunSave(ok)
    \/ StartHasMany
    \/ \E i \in 1..Len(entries) : \E ok \in BOOLEAN : CompleteEntry(i, ok)
    \/ \E ok \in BOOLEAN : Commit(ok)
    \/ \E ok \in BOOLEAN : Rollback(ok)

Spec == Init /\ [][Next]_vars

-----------------------------------------------------------------------------
(* delete and deleteAll *)

\* Ids a delete or a query may name: 1 and 2 exist, 9 matches no row.
QueryIds == {1, 2, 9}

\* query.where of a deleteAll: each key absent or given.
Wheres == [id : {NoId, 1, 9}, name : {NoName, "a", "b"}, fk : {NoId}]

\* The rows of `rows` a where clause selects.
Matching(rows, where) ==
    {k \in DOMAIN rows :
        /\ where.id # NoId => k = where.id
        /\ where.name # NoName => rows[k].name = where.name
        /\ where.fk # NoId => rows[k].fk = where.fk}

\* The error delete rejects with when model.findOne(id) yields no instance.
MissingOnDelete == BadRequestError

\* RestService.delete(model, id) up to the call of model.findOne(id).
Delete(model, id) ==
    /\ pc = "idle"
    /\ call' = [entry |-> "delete", model |-> model, data |-> [id |-> id]]
    /\ ops' = {"findOne"}
    /\ pc' = "findOne"
    /\ UNCHANGED <<db, txState, txw, instance, tasks, idx, entries, err, result, faulted,
                   txdel, value,
                   resolver, calls, txs>>

\* model.findOne(id) settles: no instance rejects, else instance.destroy() is called.
DeleteFound(ok) ==
    /\ pc = "findOne"
    /\ call.entry = "delete"
    /\ IF ~ok
       THEN /\ result' = Rejected(StoreError("findOne"))
            /\ faulted' = TRUE
            /\ pc' = "done"
            /\ UNCHANGED ops
       ELSE IF call.data.id \notin DOMAIN db[call.model]
            THEN /\ result' = Rejected(MissingOnDelete)
                 /\ pc' = "done"
                 /\ UNCHANGED <<ops, faulted>>
            ELSE /\ ops' = ops \cup {"destroy"}
                 /\ pc' = "destroy"
                 /\ UNCHANGED <<result, faulted>>
    /\ UNCHANGED <<db, txState, txw, call, instance, tasks, idx, entries, err, txdel, value,
                   resolver, calls, txs>>

\* instance.destroy() settles; it runs without a transaction.
DestroyInstance(ok) ==
    /\ pc = "destroy"
    /\ call.entry = "delete"
    /\ pc' = "done"
    /\ IF ok
       THEN /\ db' = Removed(db, [NoRemovals EXCEPT ![call.model] = {call.data.id}])
            /\ result' = Resolved
            /\ UNCHANGED faulted
       ELSE /\ result' = Rejected(StoreError("destroy"))
            /\ faulted' = TRUE
            /\ UNCHANGED db
    /\ UNCHANGED <<txState, txw, call, instance, tasks, idx, entries, err, ops, txdel, value,
                   resolver, calls, txs>>

\* RestService.deleteAll(model, query) up to the call of sequelize.transaction().
DeleteAll(model, where) ==
    /\ pc = "idle"
    /\ call' = [entry |-> "deleteAll", model |-> model, data |-> [where |-> where]]
    /\ ops' = {"begin"}
    /\ pc' = "begin"
    /\ UNCHANGED <<db, txState, txw, instance, tasks, idx, entries, err, result, faulted,
                   txdel, value,
                   resolver, calls, txs>>

\* The table a destroy of the call works on.
DestroyTable == IF call.entry = "deleteAll" THEN call.model ELSE call.data.sub

\* Variant of DestroyCount that resolves with the rows left.
DestroyCountRemaining(rows, ids) == Cardinality(DOMAIN rows \ ids)

\* The number model.destroy(query) resolves with: the rows it removed.
DestroyCount(rows, ids) == Cardinality(ids)

\* model.destroy(query).then(commit, rollback), query.transaction set.
Destroy(ok) ==
    /\ pc = "work"
    /\ call.entry \in {"deleteAll", "deleteSubResources"}
    /\ LET rows == View(DestroyTable)
           ids == Matching(rows, call.data.where)
       IN  IF ok
           THEN /\ txdel' = [txdel EXCEPT ![DestroyTable] = ids]
                /\ value' = Count(DestroyCount(rows, ids))
                /\ ops' = ops \cup {"destroy", "commit"}
                /\ pc' = "commit"
                /\ UNCHANGED <<err, faulted>>
           ELSE /\ err' = StoreError("destroy")
                /\ faulted' = TRUE
                /\ ops' = ops \cup {"destroy", "rollback"}
                /\ pc' = "rollback"
                /\ UNCHANGED <<txdel, value>>
    /\ UNCHANGED <<db, txState, txw, call, instance, tasks, idx, entries, result,
                   resolver, calls, txs>>

-----------------------------------------------------------------------------
(* transaction(callback), called with a work of the caller's own *)

\* What the caller passes: a function that calls commit, calls rollback, or
\* calls neither and returns a promise that fulfils or rejects; or a promise.
Works ==
    [kind : {"function"}, outcome : {"commit", "rollback", "fulfil", "reject"}]
        \cup [kind : {"promise"}, outcome : {"fulfil", "reject"}]

\* Which of commit and rollback ends up called.  `callback.then(commit, rollback)`
\* is attached to the callback itself when it is a thenable; what
\* `callback(t, commit, rollback)` returns is dropped.
WorkCalls(work) ==
    IF work.kind = "promise"
    THEN IF work.outcome = "fulfil" THEN "commit" ELSE "rollback"
    ELSE IF work.outcome \in {"commit", "rollback"} THEN work.outcome ELSE "none"

WorkValue == Count(1)
WorkError == StoreError("work")

\* RestService.transaction(callback) up to the call of sequelize.transaction().
Transaction(work) ==
    /\ pc = "idle"
    /\ call' = [entry |-> "transaction", model |-> "User", data |-> work]
    /\ ops' = {"begin"}
    /\ pc' = "begin"
    /\ UNCHANGED <<db, txState, txw, instance, tasks, idx, entries, err, result, faulted,
                   txdel, value,
                   resolver, calls, txs>>

\* The work runs and settles.
RunWork ==
    /\ pc = "work"
    /\ call.entry = "transaction"
    /\ LET called == WorkCalls(call.data)
       IN  /\ pc' = IF called = "none" THEN "hung" ELSE called
           /\ ops' = ops \cup ({"work", called} \ {"none"})
           /\ value' = IF called = "commit" THEN WorkValue ELSE value
           /\ err' = IF called = "rollback" THEN WorkError ELSE err
           /\ faulted' = (call.data.outcome \in {"rollback", "reject"})
    /\ UNCHANGED <<db, txState, txw, call, instance, tasks, idx, entries, result, txdel,
                   resolver, calls, txs>>

-----------------------------------------------------------------------------
(* Sub-resources of a User, the parent type of the routes of test/server.js *)

\* Parent ids: 1 exists, 9 matches no row.
ParentIds == {1, 9}
\* query of findSubResources: {} or {where: {id: subId}}.
SubWheres == [id : {NoId, 1}, name : {NoName}, fk : {NoId}]

\* Entries of a createSubResources payload: 2 is an unlinked Task, 9 matches no row.
SubEntries == [id : {NoId, 2, 9}, name : {"b"}]
\* The payload: an array, one object, or neither.
SubPayloads ==
    {[shape |-> "other", items |-> <<>>]}
        \cup {[shape |-> "object", items |-> <<e>>] : e \in SubEntries}
        \cup {[shape |-> "array", items |-> s] : s \in SeqsUpTo(SubEntries, MaxEntries)}

\* _.find(model.associations, association.target.name === subResource.name)
HasAssociation(model, sub) ==
    \E i \in DOMAIN Associations(model) : Associations(model)[i].target = sub

\* The error resolveSubresourceInstance rejects with when no association matches.
MissingAssociation == BadRequestError

\* findSubResources(model, id, subResource, query)
FindSubResources(id, sub, where) ==
    /\ pc = "idle"
    /\ call' = [entry |-> "findSubResources", model |-> "User",
                data |-> [id |-> id, sub |-> sub, where |-> where]]
    /\ pc' = "resolve"
    /\ UNCHANGED <<db, txState, txw, instance, tasks, idx, entries, err, result, ops, faulted,
                   txdel, value,
                   resolver, calls, txs>>

\* query.where of deleteSubResources: as for deleteAll, and a value of the
\* caller's own for the foreign key (2 names another parent) or none.
SubDeleteWheres == [id : {NoId, 1, 9}, name : {NoName, "a", "b"}, fk : {NoId, 2}]

\* Variant of ScopedWhere that leaves the where clause as the caller gave it.
ScopedWhereAsGiven(where, id) == where

\* query.where[result.association.identifierField] = id
ScopedWhere(where, id) == [where EXCEPT !.fk = id]

\* deleteSubResources(model, id, subResource, query); `asked` keeps the where
\* clause as the caller passed it.
DeleteSubResources(id, sub, where) ==
    /\ pc = "idle"
    /\ call' = [entry |-> "deleteSubResources", model |-> "User",
                data |-> [id |-> id, sub |-> sub, where |-> where, asked |-> where]]
    /\ pc' = "resolve"
    /\ UNCHANGED <<db, txState, txw, instance, tasks, idx, entries, err, result, ops, faulted,
                   txdel, value,
                   resolver, calls, txs>>

\* createSubResources(model, id, subResource, data) up to sequelize.transaction():
\* the parent is looked up inside the transaction callback.
CreateSubResources(id, sub, payload) ==
    /\ pc = "idle"
    /\ call' = [entry |-> "createSubResources", model |-> "User",
                data |-> [id |-> id, sub |-> sub, payload |-> payload]]
    /\ ops' = {"begin"}
    /\ pc' = "begin"
    /\ UNCHANGED <<db, txState, txw, instance, tasks, idx, entries, err, result, faulted,
                   txdel, value,
                   resolver, calls, txs>>

InCallback == call.entry = "createSubResources"

\* A rejection of the promise resolveSubresourceInstance or the callback's
\* continuation returns.  Outside a transaction it is the call's rejection;
\* inside the callback of createSubResources nothing is attached to it: neither
\* commit nor rollback is called and the outer promise stays pending.
SubRejects(e) ==
    IF InCallback
    THEN pc' = "hung" /\ err' = e /\ UNCHANGED result
    ELSE pc' = "done" /\ result' = Rejected(e) /\ UNCHANGED err

\* resolveSubresourceInstance: the association is looked up, then model.find(id).
ResolveAssociation ==
    /\ \/ pc = "resolve"
       \/ pc = "work" /\ InCallback
    /\ IF HasAssociation(call.model, call.data.sub)
       THEN /\ pc' = "find"
            /\ ops' = ops \cup {"find"}
            /\ UNCHANGED <<result, err>>
       ELSE /\ SubRejects(MissingAssociation)
            /\ UNCHANGED ops
    /\ UNCHANGED <<db, txState, txw, call, instance, tasks, idx, entries, faulted, txdel, value,
                   resolver, calls, txs>>

\* The entries of the payload createSubResources resolves: one object counts as a list of one.
SubItems == call.data.payload.items
\* resolveEntry: an entry with an id goes to toUpdate, one without is created.
ToUpdate == {i \in DOMAIN SubItems : SubItems[i].id # NoId}
ToCreate == {i \in DOMAIN SubItems : SubItems[i].id = NoId}
\* The index that stands for updateAccessor.call(instance, toUpdate, options).
AttachIx == Len(SubItems) + 1

\* model.find(id) settles; with the parent found each operation goes on.
ParentFound(ok) ==
    /\ pc = "find"
    /\ LET row == db[call.model]
           found == call.data.id \in DOMAIN row
       IN  IF ~ok \/ ~found
           THEN /\ SubRejects(IF ok THEN NotFoundError ELSE StoreError("find"))
                /\ faulted' = (faulted \/ ~ok)
                /\ UNCHANGED <<call, instance, entries, ops>>
           ELSE /\ instance' = [isNewRecord |-> FALSE, id |-> call.data.id,
                                name |-> row[call.data.id].name, fk |-> NoId]
                /\ UNCHANGED <<faulted, result>>
                /\ CASE call.entry = "findSubResources" ->
                          /\ pc' = "get"
                          /\ ops' = ops \cup {"get"}
                          /\ UNCHANGED <<call, entries, err>>
                     [] call.entry = "deleteSubResources" ->
                          \* query.where[identifierField] = id; service.deleteAll(...)
                          /\ call' = [call EXCEPT
                                       !.data.where = ScopedWhere(@, call.data.id)]
                          /\ pc' = "begin"
                          /\ ops' = ops \cup {"begin"}
                          /\ UNCHANGED <<entries, err>>
                     [] call.entry = "createSubResources" ->
                          IF call.data.payload.shape = "other"
                          THEN /\ SubRejects(BadRequestError)
                               /\ UNCHANGED <<call, entries, ops>>
                          ELSE /\ entries' = [i \in 1..AttachIx |->
                                                 IF i \in ToUpdate THEN "listed" ELSE "pending"]
                               /\ pc' = "sub"
                               /\ ops' = ops \cup {"addMultiple"}
                                             \cup {"create:Task" : i \in ToCreate}
                               /\ UNCHANGED <<call, err>>
    /\ UNCHANGED <<db, txState, txw, tasks, idx, txdel, value,
                   resolver, calls, txs>>

\* instance[association.accessors.get](query): the parent's linked rows the query selects.
GetAccessor(ok) ==
    /\ pc = "get"
    /\ pc' = "done"
    /\ IF ok
       THEN /\ value' = Records(Matching(db[call.data.sub],
                                         [call.data.where EXCEPT !.fk = instance.id]))
            /\ result' = Resolved
            /\ UNCHANGED faulted
       ELSE /\ result' = Rejected(StoreError("get"))
            /\ faulted' = TRUE
            /\ UNCHANGED value
    /\ UNCHANGED <<db, txState, txw, call, instance, tasks, idx, entries, err, ops, txdel,
                   resolver, calls, txs>>

\* Variant of createAccessor that leaves the new row unlinked.
createAccessorUnlinked(w, rows, e, parentId) ==
    Insert(w, "Task", NextId(rows), [name |-> e.name, fk |-> NoId])

\* instance[association.accessors.create](entry, {transaction}): a new row
\* linked to the parent.
createAccessor(w, rows, e, parentId) ==
    Insert(w, "Task", NextId(rows), [name |-> e.name, fk |-> parentId])

\* instance[association.accessors.addMultiple](toUpdate, {transaction}): the
\* rows with the listed ids are linked to the parent, their attributes are left.
updateAccessor(w, rows, ids, parentId) ==
    [w EXCEPT !.Task = [k \in ids \cap DOMAIN rows |-> [rows[k] EXCEPT !.fk = parentId]] @@ @]

\* _.union(data.updated, data.created)
Union(updated, created) == updated \cup created

\* One of the promises keys.all waits for settles: a create (i in ToCreate) or
\* the attach (i = AttachIx).  The first failure calls rollback while the others
\* are in flight; commit is called when all have fulfilled.
CompleteSub(i, ok) ==
    /\ pc \in {"sub", "rollback", "done"}
    /\ InCallback
    /\ i \in DOMAIN entries
    /\ entries[i] = "pending"
    /\ ok => txState = "open"
    /\ LET rows == View("Task")
           ids == {SubItems[j].id : j \in ToUpdate}
           w == IF ~ok THEN txw
                ELSE IF i = AttachIx THEN updateAccessor(txw, rows, ids, instance.id)
                ELSE createAccessor(txw, rows, SubItems[i], instance.id)
           op == IF i = AttachIx THEN "addMultiple" ELSE "create:Task"
       IN  /\ txw' = w
           /\ entries' = [entries EXCEPT ![i] = IF ok THEN "ok" ELSE "failed"]
           /\ faulted' = (faulted \/ ~ok)
           /\ IF pc # "sub"
              THEN UNCHANGED <<pc, err, ops, value>>
              ELSE IF ~ok
                   THEN /\ pc' = "rollback"
                        /\ err' = StoreError(op)
                        /\ ops' = ops \cup {"rollback"}
                        /\ UNCHANGED value
                   ELSE IF \A j \in DOMAIN entries : j # i => entries[j] # "pending"
                        THEN /\ pc' = "commit"
                             /\ ops' = ops \cup {"commit"}
                             /\ value' = Records(Union(ids \cap DOMAIN rows,
                                                       DOMAIN w.Task \ DOMAIN db.Task))
                             /\ UNCHANGED err
                        ELSE UNCHANGED <<pc, err, ops, value>>
    /\ UNCHANGED <<db, txState, call, instance, tasks, idx, result, txdel,
                   resolver, calls, txs>>

OpsNext ==
    \/ pc = "idle" /\ \E model \in Models : \E id \in QueryIds : Delete(model, id)
    \/ \E ok \in BOOLEAN : DeleteFound(ok)
    \/ \E ok \in BOOLEAN : DestroyInstance(ok)
    \/ pc = "idle" /\ \E model \in Models : \E where \in Wheres : DeleteAll(model, where)
    \/ \E ok \in BOOLEAN : Destroy(ok)
    \/ pc = "idle" /\ \E work \in Works : Transaction(work)
    \/ RunWork
    \/ pc = "idle" /\ \E id \in ParentIds : \E sub \in Models : \E where \in SubWheres :
          FindSubResources(id, sub, where)
    \/ pc = "idle" /\ \E id \in ParentIds : \E sub \in Models : \E where \in SubDeleteWheres :
          DeleteSubResources(id, sub, where)
    \/ pc = "idle" /\ \E id \in ParentIds : \E sub \in Models : \E payload \in SubPayloads :
          CreateSubResources(id, sub, payload)
    \/ ResolveAssociation
    \/ \E ok \in BOOLEAN : ParentFound(ok)
    \/ \E ok \in BOOLEAN : GetAccessor(ok)
    \/ \E i \in 1..Len(entries) : \E ok \in BOOLEAN : CompleteSub(i, ok)
    \/ BeginOk
    \/ BeginFail
    \/ \E ok \in BOOLEAN : Commit(ok)
    \/ \E ok \in BOOLEAN : Rollback(ok)

OpsSpec == Init /\ [][OpsNext]_vars

-----------------------------------------------------------------------------
(* resolveAssociationHandler on any service and any id *)

\* JavaScript values an id argument may be.
Undefined == [type |-> "undefined", n |-> 0]
Null == [type |-> "null", n |-> 0]
Num(n) == [type |-> "number", n |-> n]
JsIds == {Undefined, Null, Num(0), Num(1)}

\* The property key method + name + 'Association'; name "" gives method + 'Association'.
Key(method, name) == [method |-> method, name |-> name]
HandlerKeys == [method : {"create", "update"}, name : Models \cup {""}]
\* A service: what typeof this[key] is for each key.
Services == [HandlerKeys -> {"function", "string", "undefined"}]

\* errors.TypeError('Can not find Association Handler for keys `[%s]`.', keys.join(', '))
HandlerTypeError(keys) == [kind |-> "TypeError", key |-> Key("", ""), keys |-> keys]
Handler(key) == [kind |-> "handler", key |-> key, keys |-> <<>>]

\* Variant of HandlerMethod that treats null and 0 as no id.
HandlerMethodFalsy(id) == IF id \in {Undefined, Null, Num(0)} THEN "create" ELSE "update"

\* var method = typeof id === 'undefined' ? 'create' : 'update'
HandlerMethod(id) == IF id = Undefined THEN "create" ELSE "update"

\* resolveAssociationHandler(name, id) on service `this`.
ResolveHandler(this, name, id) ==
    LET method == HandlerMethod(id)
        keys == <<Key(method, name), Key(method, "")>>
        available == SelectSeq(keys, LAMBDA key : this[key] = "function")
    IN  IF Len(available) > 0 THEN Handler(available[1]) ELSE HandlerTypeError(keys)

HandlerInit ==
    /\ db = Seed
    /\ txState = "none"
    /\ txw = NoWrites
    /\ call \in [entry : {"resolveAssociationHandler"}, model : Models,
                  data : [this : Services, id : JsIds]]
    /\ pc = "idle"
    /\ instance = Build(EmptyData)
    /\ tasks = <<>>
    /\ idx = 0
    /\ entries = <<>>
    /\ err = NoError
    /\ result = Pending
    /\ ops = {}
    /\ faulted = FALSE
    /\ resolver = NewResolver
    /\ calls = <<>>
    /\ txs = <<>>
    /\ txdel = NoRemovals
    /\ value = Handler(Key("", ""))

\* The call returns a handler or throws.
ResolveHandlerCall ==
    /\ pc = "idle"
    /\ value' = ResolveHandler(call.data.this, call.model, call.data.id)
    /\ pc' = "done"
    /\ UNCHANGED <<db, txState, txw, call, instance, tasks, idx, entries, err, result, ops,
                   faulted, txdel,
                   resolver, calls, txs>>

HandlerNext == ResolveHandlerCall

HandlerSpec == HandlerInit /\ [][HandlerNext]_vars

-----------------------------------------------------------------------------
(* populate *)

\* Calls of populate made on one query object.
MaxCalls == 3

\* model.associations, in declaration order, for User, Task, Foo (none, as in
\* test/models) and a type that declares two.
PopulateModels == {"User", "Task", "Foo", "Both"}
PopulateAssociations(model) ==
    CASE model \in Models -> [defined |-> TRUE, list |-> Associations(model)]
      [] model = "Foo" -> [defined |-> TRUE, list |-> <<>>]
      [] model = "Both" -> [defined |-> TRUE,
                            list |-> Associations("User") \o Associations("Task")]

\* An entry of query.include.
Include(association) == [model |-> association.target, as |-> association.as]
IncludeEntries == {Include(Associations(m)[1]) : m \in Models}

\* query.include: an array, or anything else (undefined for the query {}).
NoInclude == [isArray |-> FALSE, items |-> <<>>]
Queries ==
    {[include |-> NoInclude]}
        \cup {[include |-> [isArray |-> TRUE, items |-> s]] :
                  s \in SeqsUpTo(IncludeEntries, MaxEntries)}

\* The entries populate pushes.
Pushed(list) == [i \in DOMAIN list |-> Include(list[i])]

\* Variant of Populate that works on a copy and leaves the caller's object alone.
PopulateCopy(associations, query) ==
    [caller |-> query,
     returned |-> [ref |-> "fresh",
                   query |-> IF ~associations.defined THEN query
                             ELSE [query EXCEPT !.include =
                                      [isArray |-> TRUE,
                                       items |-> @.items \o Pushed(associations.list)]]]]

\* Variant of Populate that skips an entry the list already holds.
PopulateOnce(associations, query) ==
    LET old == query.include.items
        new == SelectSeq(Pushed(associations.list),
                         LAMBDA e : \A i \in DOMAIN old : old[i] # e)
        q == [query EXCEPT !.include = [isArray |-> TRUE, items |-> old \o new]]
    IN  [caller |-> q, returned |-> [ref |-> "caller", query |-> q]]

\* populate(model, query): the caller's object after the call, and what is
\* returned (a reference to the caller's object).
Populate(associations, query) ==
    IF ~associations.defined
    THEN [caller |-> query, returned |-> [ref |-> "caller", query |-> query]]
    ELSE LET old == IF query.include.isArray THEN query.include.items ELSE <<>>
             q == [query EXCEPT !.include =
                      [isArray |-> TRUE, items |-> old \o Pushed(associations.list)]]
         IN  [caller |-> q, returned |-> [ref |-> "caller", query |-> q]]

PopulateInit ==
    /\ db = Seed
    /\ txState = "none"
    /\ txw = NoWrites
    /\ call \in {[entry |-> "populate", model |-> "Foo", data |-> q, before |-> q, calls |-> 0] :
                    q \in Queries}
    /\ pc = "idle"
    /\ instance = Build(EmptyData)
    /\ tasks = <<>>
    /\ idx = 0
    /\ entries = <<>>
    /\ err = NoError
    /\ result = Pending
    /\ ops = {}
    /\ faulted = FALSE
    /\ resolver = NewResolver
    /\ calls = <<>>
    /\ txs = <<>>
    /\ txdel = NoRemovals
    /\ value = [ref |-> "none", query |-> [include |-> NoInclude]]

\* One call of populate on the caller's query object.
PopulateCall(model) ==
    /\ call.calls < MaxCalls
    /\ LET r == Populate(PopulateAssociations(model), call.data)
       IN  /\ call' = [entry |-> "populate", model |-> model, data |-> r.caller,
                       before |-> call.data, calls |-> call.calls + 1]
           /\ value' = r.returned
    /\ UNCHANGED <<db, txState, txw, pc, instance, tasks, idx, entries, err, result, ops,
                   faulted, txdel,
                   resolver, calls, txs>>

PopulateNext == \E model \in PopulateModels : PopulateCall(model)

PopulateSpec == PopulateInit /\ [][PopulateNext]_vars

\* One call of any operation of the service.
ServiceNext == Next \/ OpsNext

ServiceSpec == Init /\ [][ServiceNext]_vars

-----------------------------------------------------------------------------
(* Concurrent persist calls on one RestService *)

\* Calls of persist in flight at once.
MaxConcurrent == 2

\* The payload of a concurrent call: a new User, with or without one new Task.
ConcurrentData(child) ==
    [id |-> NoId, name |-> "b",
     rel |-> IF child
             THEN [shape |-> "array", items |-> <<[kind |-> "obj", id |-> NoId, name |-> "b"]>>]
             ELSE Absent]

\* The locals of one persist call: its tasks, its instance, and the t its
\* transaction callback was given (0 before sequelize.transaction() resolves).
NewCall(child) ==
    [pc |-> "begin", tasks |-> PersistTasks("User", ConcurrentData(child)), idx |-> 1,
     t |-> 0, rootId |-> NoId, received |-> {}, rows |-> {},
     err |-> NoError, result |-> Pending]

\* A transaction sequelize.transaction() hands out: its writes, the calls that
\* issued them, and the call that committed it or rolled it back (0: none).
NewTransaction == [state |-> "open", writes |-> NoWrites, by |-> {}, closedBy |-> 0]

\* The primary key an insert is given: the store's sequence is shared by all
\* transactions.
AllocId(table) ==
    Max({0} \cup DOMAIN db[table] \cup UNION {DOMAIN txs[h].writes[table] : h \in DOMAIN txs}) + 1

\* Variant of Handle that keeps the transaction on the service: every call uses
\* the one opened last.
HandleShared(c) == Len(txs)

\* The t of call c: a local of the function transaction() passes to
\* sequelize.transaction().then, used by its callback, commit and rollback.
Handle(c) == calls[c].t

\* persist(model, data) up to the call of sequelize.transaction().
ConcurrentPersist(child) ==
    /\ Len(calls) < MaxConcurrent
    /\ calls' = Append(calls, NewCall(child))
    /\ UNCHANGED <<db, txs>>
    /\ UNCHANGED <<txState, txw, call, pc, instance, tasks, idx, entries, err, result, ops,
                   faulted, txdel, value, resolver>>

\* sequelize.transaction() of call c resolves with a new t, or rejects.
ConcurrentBegin(c, ok) ==
    /\ calls[c].pc = "begin"
    /\ IF ok
       THEN /\ txs' = Append(txs, NewTransaction)
            /\ calls' = [calls EXCEPT ![c].t = Len(txs) + 1, ![c].pc = "seq"]
       ELSE /\ calls' = [calls EXCEPT ![c].pc = "hung"]
            /\ UNCHANGED txs
    /\ UNCHANGED db
    /\ UNCHANGED <<txState, txw, call, pc, instance, tasks, idx, entries, err, result, ops,
                   faulted, txdel, value, resolver>>

\* The next task of call c runs with the handle the call passes to it: the save
\* of the root, or the create of the one related record.
ConcurrentTask(c, ok) ==
    /\ calls[c].pc = "seq"
    /\ LET h == Handle(c)
           k == calls[c]
           table == IF k.tasks[k.idx] = "Save" THEN "User" ELSE "Task"
           id == AllocId(table)
           row == [name |-> "b", fk |-> IF table = "Task" THEN k.rootId ELSE NoId]
       IN  /\ ok => txs[h].state = "open"
           /\ IF ok
              THEN /\ txs' = [txs EXCEPT ![h].writes = Insert(@, table, id, row),
                                        ![h].by = @ \cup {c}]
                   /\ calls' = [calls EXCEPT
                                  ![c].received = @ \cup {h},
                                  ![c].rows = @ \cup {[table |-> table, id |-> id]},
                                  ![c].rootId = IF table = "User" THEN id ELSE @,
                                  ![c].idx = @ + 1,
                                  ![c].pc = IF k.idx = Len(k.tasks) THEN "commit" ELSE "seq"]
              ELSE /\ calls' = [calls EXCEPT
                                  ![c].received = @ \cup {h},
                                  ![c].err = StoreError(table),
                                  ![c].pc = "rollback"]
                   /\ UNCHANGED txs
    /\ UNCHANGED db
    /\ UNCHANGED <<txState, txw, call, pc, instance, tasks, idx, entries, err, result, ops,
                   faulted, txdel, value, resolver>>

\* commit(result) of call c: t.commit().then(resolve, reject)
ConcurrentCommit(c, ok) ==
    /\ calls[c].pc = "commit"
    /\ LET h == Handle(c)
       IN  /\ ok => txs[h].state = "open"
           /\ IF ok
              THEN /\ db' = Committed(db, txs[h].writes)
                   /\ txs' = [txs EXCEPT ![h].state = "committed", ![h].closedBy = c]
                   /\ calls' = [calls EXCEPT ![c].pc = "done", ![c].result = Resolved]
              ELSE /\ calls' = [calls EXCEPT ![c].pc = "done",
                                            ![c].result = Rejected(StoreError("commit"))]
                   /\ UNCHANGED <<db, txs>>
    /\ UNCHANGED <<txState, txw, call, pc, instance, tasks, idx, entries, err, result, ops,
                   faulted, txdel, value, resolver>>

\* rollback(error) of call c: t.rollback().then(reject(error), reject(DatabaseError(e)))
ConcurrentRollback(c, ok) ==
    /\ calls[c].pc = "rollback"
    /\ LET h == Handle(c)
       IN  /\ ok => txs[h].state = "open"
           /\ txs' = IF ok
                     THEN [txs EXCEPT ![h].state = "rolledback", ![h].closedBy = c]
                     ELSE txs
           /\ calls' = [calls EXCEPT
                          ![c].pc = "done",
                          ![c].result = Rejected(RollbackRejection(ok, calls[c].err,
                                                                   StoreError("rollback")))]
    /\ UNCHANGED db
    /\ UNCHANGED <<txState, txw, call, pc, instance, tasks, idx, entries, err, result, ops,
                   faulted, txdel, value, resolver>>

ConcurrentNext ==
    \/ \E child \in BOOLEAN : ConcurrentPersist(child)
    \/ \E c \in DOMAIN calls : \E ok \in BOOLEAN : ConcurrentBegin(c, ok)
    \/ \E c \in DOMAIN calls : \E ok \in BOOLEAN : ConcurrentTask(c, ok)
    \/ \E c \in DOMAIN calls : \E ok \in BOOLEAN : ConcurrentCommit(c, ok)
    \/ \E c \in DOMAIN calls : \E ok \in BOOLEAN : ConcurrentRollback(c, ok)

ConcurrentSpec == Init /\ [][ConcurrentNext]_vars

-----------------------------------------------------------------------------
(* Resolver *)

\* Calls of resolve one behaviour makes.
MaxResolves == 3

\* The kinds resolveService, resolveSerializer and resolveDeserializer look up.
Kinds == {"services", "serializers", "deserializers"}
ModuleNames == {"users", "foo"}

\* var cacheKey = type + ':' + name
CacheKey(type, name) == type \o ":" \o name

\* getFromCache(type, name): this._cache[cacheKey], undefined without an entry.
getFromCache(r, type, name) ==
    IF CacheKey(type, name) \in DOMAIN r.cache THEN r.cache[CacheKey(type, name)] ELSE NoModule

\* addToCache(type, name, value)
addToCache(r, type, name, module) ==
    [r EXCEPT !.cache = (CacheKey(type, name) :> module) @@ @]

\* clearCache()
clearCache(r) == [r EXCEPT !.cache = [k \in {} |-> NoModule]]

\* resolve(type, name) of the extending class: a new instance, or nothing.
\* Instances are numbered by the resolve call that made them.
resolve(r, type, name, found) ==
    [resolver |-> [r EXCEPT !.resolved = Append(@, CacheKey(type, name))],
     module |-> IF found THEN Len(r.resolved) + 1 ELSE NoModule]

\* Variant of resolveAndCache that never reads the cache.
resolveAndCacheAlways(r, type, name, found) ==
    LET res == resolve(r, type, name, found)
    IN  [resolver |-> IF res.module # NoModule
                      THEN addToCache(res.resolver, type, name, res.module)
                      ELSE res.resolver,
         module |-> res.module]

\* resolveAndCache(resolver, type, name)
resolveAndCache(r, type, name, found) ==
    LET cached == getFromCache(r, type, name)
        res == IF cached # NoModule THEN [resolver |-> r, module |-> cached]
               ELSE resolve(r, type, name, found)
    IN  [resolver |-> IF res.module # NoModule
                      THEN addToCache(res.resolver, type, name, res.module)
                      ELSE res.resolver,
         module |-> res.module]

\* resolveService(name), resolveSerializer(name) or resolveDeserializer(name).
Lookup(kind, name, found) ==
    /\ Len(resolver.resolved) < MaxResolves
    /\ LET res == resolveAndCache(resolver, kind, name, found)
       IN  /\ resolver' = res.resolver
           /\ call' = [entry |-> "lookup", model |-> name, data |-> [kind |-> kind]]
           /\ value' = [module |-> res.module]
    /\ UNCHANGED <<db, txState, txw, pc, instance, tasks, idx, entries, err, result, ops,
                   faulted, txdel, calls, txs>>

\* resolver.clearCache()
ClearCache ==
    /\ resolver' = clearCache(resolver)
    /\ call' = [entry |-> "clearCache", model |-> "", data |-> [kind |-> ""]]
    /\ value' = [module |-> NoModule]
    /\ UNCHANGED <<db, txState, txw, pc, instance, tasks, idx, entries, err, result, ops,
                   faulted, txdel, calls, txs>>

ResolverInit ==
    /\ db = Seed
    /\ txState = "none"
    /\ txw = NoWrites
    /\ call = [entry |-> "none", model |-> "", data |-> [kind |-> ""]]
    /\ pc = "idle"
    /\ instance = Build(EmptyData)
    /\ tasks = <<>>
    /\ idx = 0
    /\ entries = <<>>
    /\ err = NoError
    /\ result = Pending
    /\ ops = {}
    /\ faulted = FALSE
    /\ resolver = NewResolver
    /\ calls = <<>>
    /\ txs = <<>>
    /\ txdel = NoRemovals
    /\ value = [module |-> NoModule]

ResolverNext ==
    \/ \E kind \in Kinds : \E name \in ModuleNames : \E found \in BOOLEAN :
          Lookup(kind, name, found)
    \/ ClearCache

ResolverSpec == ResolverInit /\ [][ResolverNext]_vars

-----------------------------------------------------------------------------
(* RestAdapter.update *)

NaN == [type |-> "nan", n |-> 0]
\* The id argument of update(type, id, payload).
UpdateIds == JsIds \cup {NaN}

\* !id: undefined, null, NaN and 0 are falsy.
Falsy(id) == ~(id.type = "number" /\ id.n # 0)
\* The id a payload holds once `data.id = id` has run.
AsPayloadId(id) == IF id.type = "number" THEN id.n ELSE NoId

\* update(type, id, payload) up to the call of persist: with two arguments the
\* second is the payload and id is null; `data.id = id` unless id is NaN; a
\* BadRequestError is thrown when id and data.id are both falsy.
UpdateData(argc, id, data) ==
    LET given == IF argc = 2 THEN Null ELSE id
        withId == IF given # NaN THEN [data EXCEPT !.id = AsPayloadId(given)] ELSE data
    IN  [threw |-> Falsy(given) /\ withId.id = NoId, data |-> withId]

\* RestAdapter.update(type, id, payload) or update(type, payload).
AdapterUpdate(model, argc, id, data, wrapped) ==
    /\ pc = "idle"
    /\ LET r == UpdateData(argc, id, data)
       IN  IF normalizePayload(data, wrapped) = "BadRequest" \/ r.threw
           THEN /\ call' = [entry |-> "update", model |-> model, data |-> data,
                            argc |-> argc, id |-> id]
                /\ result' = Rejected(BadRequestError)
                /\ pc' = "done"
                /\ UNCHANGED <<db, txState, txw, instance, tasks, idx, entries, err, ops,
                               faulted, txdel, value,
                   resolver, calls, txs>>
           ELSE StartPersist(model, r.data)

UpdateNext ==
    \/ pc = "idle" /\ \E model \in Models : \E data \in Payloads(model) :
          \E argc \in {2, 3} : \E id \in UpdateIds : \E wrapped \in BOOLEAN :
             AdapterUpdate(model, argc, id, data, wrapped)
    \/ BeginOk
    \/ BeginFail
    \/ \E ok \in BOOLEAN : RunBelongsTo(ok)
    \/ \E ok \in BOOLEAN : RunSave(ok)
    \/ StartHasMany
    \/ \E i \in 1..Len(entries) : \E ok \in BOOLEAN : CompleteEntry(i, ok)
    \/ \E ok \in BOOLEAN : Commit(ok)
    \/ \E ok \in BOOLEAN : Rollback(ok)

UpdateSpec == Init /\ [][UpdateNext]_vars

-----------------------------------------------------------------------------
(* Properties of persist *)

Settled == pc = "done"
IsPersist == call.entry = "persist"
ToMany == IsPersist /\ call.model = "User" /\ call.data.rel.shape = "array"
ToOne == IsPersist /\ call.model = "Task" /\ call.data.rel.shape = "single"
\* The table of the call's related records.
Target == IF call.model = "User" THEN "Task" ELSE "User"
NewRows(table) == DOMAIN db[table] \ DOMAIN Seed[table]
\* An entry that asks for a new related record: an object without a primary key.
IsNew(e) == e.kind = "obj" /\ e.id = NoId
\* An entry that only references a record: a bare identifier or an object with only the id.
IsReference(e) == e.kind \in {"num", "str"} \/ (e.kind = "obj" /\ e.id # NoId /\ e.name = NoName)
LinkedTo(rootId) == {k \in DOMAIN db.Task : db.Task[k].fk = rootId}

\* C1: once a persist call has rejected because the root save or a relation task
\* failed, the store holds no root row, no created related row and no changed
\* foreign-key link written by the call: the committed rows are those before it.
C1_Atomicity ==
    (IsPersist /\ result.state = "rejected" /\ err # NoError) => db = Seed

C4_NewRelatedIgnored ==
    (IsPersist /\ result.state = "resolved"
       /\ \E i \in DOMAIN Items : IsNew(Items[i]) /\ Items[i].name # NoName)
        => NewRows(Target) = {}

\* C5: for a to-one value that is a bare identifier (a number or a numeric
\* string), the root's foreign key is that identifier by the time the root is
\* saved, and no create or update is issued on the target type.
C5_ToOneBareIdentifier ==
    (ToOne /\ Items[1].kind \in {"num", "str"} /\ "save" \in ops)
        => /\ instance.fk = ToNumber(Items[1])
           /\ ops \cap {"create:User", "update:User"} = {}

C7_SubRecordNotUpdated ==
    (ToMany /\ result.state = "resolved" /\ call.data.id # NoId)
        => \A i \in DOMAIN Items :
              (Items[i].kind = "obj" /\ Items[i].id \in DOMAIN Seed.Task /\ Items[i].name # NoName)
                  => /\ db.Task[Items[i].id].name = Seed.Task[Items[i].id].name
                     /\ db.Task[Items[i].id].fk = instance.id

\* C8: a persist of a new root whose to-many entries are objects naming an id
\* that matches no row, settled without a failure of the store, has resolved:
\* the transaction is committed, not rolled back, the root row is created, no
\* related row is created and none is attached to the root.
C8_UnknownIdIsLenient ==
    (/\ ToMany /\ Settled /\ ~faulted
     /\ call.data.id = NoId
     /\ Len(Items) >= 1
     /\ \A i \in DOMAIN Items :
           Items[i].kind = "obj" /\ Items[i].id # NoId /\ Items[i].id \notin DOMAIN Seed.Task)
        => /\ result = Resolved
           /\ txState = "committed"
           /\ "rollback" \notin ops
           /\ NewRows("User") = {instance.id}
           /\ NewRows("Task") = {}
           /\ LinkedTo(instance.id) = {}

C8_Witness ==
    /\ ToMany /\ Settled /\ ~faulted
    /\ call.data.id = NoId
    /\ Len(Items) >= 1
    /\ \A i \in DOMAIN Items :
          Items[i].kind = "obj" /\ Items[i].id # NoId /\ Items[i].id \notin DOMAIN Seed.Task
    /\ "update:Task" \in ops
    /\ result = Resolved

C10_CarriesBoth ==
    txState = "rollbackFailed"
        => /\ result.state = "rejected"
           /\ result.error.kind = "DatabaseError"
           /\ result.error.carries = err.carries \cup {"rollback"}

\* C10 amended: when the work fails with E and the rollback fails with R, the
\* promise rejects with a DatabaseError that carries the rollback failure R
\* only; the original failure E is not carried.
C10_CarriesRollbackFailure ==
    txState = "rollbackFailed"
        => /\ result.state = "rejected"
           /\ result.error.kind = "DatabaseError"
           /\ result.error.carries = {"rollback"}
           /\ err # NoError
           /\ err.carries \cap result.error.carries = {}

C10_Witness ==
    /\ txState = "rollbackFailed"
    /\ err = StoreError("create:Task")
    /\ result.error.kind = "DatabaseError"

\* The failures a task of the call can hand to rollback: the root save's, the
\* to-one task's, or that of a to-many entry that has failed.
TaskFailures ==
    {StoreError("save")}
        \cup {StoreError(BelongsToOp(Items[i])) : i \in {j \in DOMAIN Items : ToOne}}
        \cup {StoreError(EntryOp(Items[i])) : i \in {j \in DOMAIN entries : entries[j] = "failed"}}

\* C11: when the root save or a relation task of persist fails with E and the
\* rollback succeeds, persist rejects with exactly E, neither wrapped nor
\* replaced; while the rollback is in progress the promise is still pending, and
\* a rejection with a task's failure is never seen before the rollback settled.
C11_ErrorIdentity ==
    IsPersist =>
        /\ pc = "rollback" => (result = Pending /\ err \in TaskFailures)
        /\ txState = "rolledback"
              => /\ err \in TaskFailures
                 /\ result = Rejected(err)
                 /\ result.error.kind = "StoreError"
        /\ (result.state = "rejected" /\ err # NoError)
              => txState \in {"rolledback", "rollbackFailed"}

C11_Witness ==
    /\ IsPersist /\ txState = "rolledback"
    /\ err = StoreError("create:Task")
    /\ result = Rejected(StoreError("create:Task"))
    /\ \E i \in DOMAIN entries : entries[i] = "failed"

\* C12: when the work handed to transaction is a function that returns a
\* promise and calls neither commit nor rollback, then once that promise has
\* settled commit has been called if it fulfilled and rollback if it rejected,
\* and the outer promise settles with its value or its reason.
C12_AutomaticChaining ==
    (/\ call.entry = "transaction"
     /\ call.data.kind = "function"
     /\ call.data.outcome \in {"fulfil", "reject"}
     /\ "work" \in ops)
        => /\ pc # "hung"
           /\ IF call.data.outcome = "fulfil" THEN "commit" \in ops ELSE "rollback" \in ops
           /\ txState = "committed" => (result = Resolved /\ value = WorkValue)
           /\ txState = "rolledback" => result = Rejected(WorkError)

\* C13: resolveAssociationHandler(name, id) takes the intent create exactly
\* when id is undefined and update for every other id, null and 0 included; it
\* returns the method named intent + name + 'Association' when the service has it
\* as a function, otherwise intent + 'Association' when that is a function; when
\* neither is, it throws a TypeError that names both keys.
C13_HandlerDispatch ==
    (call.entry = "resolveAssociationHandler" /\ pc = "done") =>
        LET this == call.data.this
            intent == IF call.data.id = Undefined THEN "create" ELSE "update"
            specific == Key(intent, call.model)
            generic == Key(intent, "")
        IN  /\ this[specific] = "function" => value = Handler(specific)
            /\ (this[specific] # "function" /\ this[generic] = "function")
                  => value = Handler(generic)
            /\ (this[specific] # "function" /\ this[generic] # "function")
                  => /\ value.kind = "TypeError"
                     /\ value.keys = <<specific, generic>>

C13_Witness ==
    /\ call.entry = "resolveAssociationHandler" /\ pc = "done"
    /\ call.data.id = Num(0)
    /\ call.model = "Task"
    /\ call.data.this[Key("update", "Task")] = "string"
    /\ call.data.this[Key("create", "Task")] = "function"
    /\ value = Handler(Key("update", ""))

\* C14: a delete for an id that matches no record, settled without a failure
\* of the store, has rejected with a NotFound error and has issued no destroy.
C14_DeleteMissingIsNotFound ==
    (/\ call.entry = "delete"
     /\ Settled /\ ~faulted
     /\ call.data.id \notin DOMAIN Seed[call.model])
        => /\ result.state = "rejected"
           /\ result.error.kind = "NotFoundError"
           /\ "destroy" \notin ops

\* C15: deleteAll resolves only once its transaction has committed, with the
\* number of rows that matched the query (0 when none did); then no row matching
\* the query is left and every other row is as before.  Until the commit no row
\* has left the committed rows.
C15_DeleteAllCount ==
    call.entry = "deleteAll" =>
        LET table == call.model
            matched == Matching(Seed[table], call.data.where)
        IN  /\ result.state = "resolved"
                  => /\ txState = "committed"
                     /\ value = Count(Cardinality(matched))
                     /\ Matching(db[table], call.data.where) = {}
                     /\ DOMAIN db[table] = DOMAIN Seed[table] \ matched
                     /\ \A k \in DOMAIN db[table] : db[table][k] = Seed[table][k]
                     /\ \A other \in Models \ {table} : db[other] = Seed[other]
            /\ txState # "committed" => db = Seed

C15_Witness ==
    /\ call.entry = "deleteAll"
    /\ call.data.where.id = 1
    /\ result = Resolved
    /\ value = Count(1)
    /\ DOMAIN db[call.model] = {2}

\* C16: after a call of populate the include list of the query is an array
\* holding the entries it held before (none when it was not an array) followed
\* by exactly one entry {model: target, as: alias} per declared association of
\* the type, in declaration order: n associations add n entries, none gives an
\* empty list for the query {}, nothing is added for the targets' associations,
\* and a repeated call adds the n entries again.
C16_PopulateAppends ==
    (call.entry = "populate" /\ call.calls > 0) =>
        LET list == PopulateAssociations(call.model).list
            old == IF call.before.include.isArray THEN call.before.include.items ELSE <<>>
            new == call.data.include.items
        IN  /\ call.data.include.isArray
            /\ Len(new) = Len(old) + Len(list)
            /\ \A i \in 1..Len(old) : new[i] = old[i]
            /\ \A i \in 1..Len(list) :
                  new[Len(old) + i] = [model |-> list[i].target, as |-> list[i].as]

C16_Witness ==
    /\ call.entry = "populate" /\ call.calls = 2
    /\ call.model = "Both"
    /\ call.before.include.items = Pushed(PopulateAssociations("Both").list)
    /\ Len(call.data.include.items) = 4
    /\ call.data.include.items[1] = call.data.include.items[3]

\* C17 as stated: populate returns a new query value and the caller's query
\* object is the same before and after the call.
C17_ReturnsNewQuery ==
    (call.entry = "populate" /\ call.calls > 0)
        => /\ value.ref = "fresh"
           /\ call.data = call.before

\* C17 amended: populate returns the caller's query object itself, changed in
\* place: what it returns is the caller's object, and the caller's include list
\* differs from the one before the call unless the type declares no association
\* and the list was already an array.
C17_ReturnsCallersQuery ==
    (call.entry = "populate" /\ call.calls > 0)
        => /\ value.ref = "caller"
           /\ value.query = call.data
           /\ (call.data = call.before)
                  <=> (/\ PopulateAssociations(call.model).list = <<>>
                       /\ call.before.include.isArray)

C17_Witness ==
    /\ call.entry = "populate" /\ call.calls = 1
    /\ call.model = "User"
    /\ ~call.before.include.isArray
    /\ call.data.include.items = <<[model |-> "Task", as |-> "Tasks"]>>
    /\ value = [ref |-> "caller", query |-> call.data]

C19_LookupFailuresAreNotFound ==
    (/\ call.entry \in {"findSubResources", "createSubResources", "deleteSubResources"}
     /\ pc \in {"done", "hung"}
     /\ ~faulted
     /\ \/ call.data.id \notin DOMAIN Seed[call.model]
        \/ ~HasAssociation(call.model, call.data.sub))
        => /\ result.state = "rejected"
           /\ result.error.kind = "NotFoundError"

\* C20: update(type, payload), the two-argument form, with a payload that
\* carries an id does not fail with BadRequest; BadRequest is raised only when
\* neither the id argument nor the payload supplies an id (or the payload is
\* empty).
C20_TwoArgumentUpdate ==
    (call.entry = "update" /\ result = Rejected(BadRequestError))
        => \/ IsEmptyPayload(call.data)
           \/ /\ call.data.id = NoId
              /\ call.argc = 2 \/ Falsy(call.id)

\* The key of the lookup the last step made.
LookupKey == CacheKey(call.data.kind, call.model)

TaskAt(kind) ==
    IF \E i \in DOMAIN tasks : tasks[i] = kind
    THEN CHOOSE i \in DOMAIN tasks : tasks[i] = kind /\ \A j \in 1..(i - 1) : tasks[j] # kind
    ELSE 0

C23_WritesInsideTransaction ==
    (IsPersist /\ txState # "committed") => db = Seed

\* C24: the entry tasks of a to-many batch settle in any order; commit is
\* requested, and persist resolves, only when every entry task has fulfilled;
\* once an entry has failed, rollback has been requested, commit never is, and
\* the call settles rejected with its transaction not committed.
C24_FanOutFanIn ==
    (ToMany /\ entries # <<>>) =>
        /\ ("commit" \in ops \/ pc = "commit" \/ result.state = "resolved")
              => \A i \in DOMAIN entries : entries[i] = "ok"
        /\ (\E i \in DOMAIN entries : entries[i] = "failed")
              => /\ "rollback" \in ops
                 /\ "commit" \notin ops
                 /\ pc \in {"rollback", "done"}
                 /\ txState \in {"open", "rolledback", "rollbackFailed"}
                 /\ Settled => result.state = "rejected"

\* The second entry of a batch of two has fulfilled while the first is in flight.
C24_Witness ==
    /\ ToMany
    /\ pc = "par"
    /\ entries = <<"pending", "ok">>

\* C25: when persist resolves for a to-many payload of two or more distinct
\* bare identifiers of existing rows, every one of those rows is linked to the
\* root, whatever order the entry tasks completed in.
C25_AttachAll ==
    (/\ ToMany /\ result.state = "resolved"
     /\ Len(Items) >= 2
     /\ \A i \in DOMAIN Items : ~IsNaN(Items[i]) /\ ToNumber(Items[i]) \in DOMAIN Seed.Task
     /\ \A i, j \in DOMAIN Items : i # j => ToNumber(Items[i]) # ToNumber(Items[j]))
        => \A i \in DOMAIN Items : db.Task[ToNumber(Items[i])].fk = instance.id

\* The calls that have been given a transaction.
Begun == {c \in DOMAIN calls : calls[c].t # 0}

\* C26: concurrent persist calls each open their own transaction; the tasks of
\* a call receive only the handle of that call's transaction, so a transaction
\* holds writes of its own call only; a transaction is committed or rolled back
\* by its own call only, and the rows a call wrote are committed exactly when
\* that call has resolved.
C26_Isolation ==
    /\ Len(txs) = Cardinality(Begun)
    /\ \A c, d \in Begun : c # d => calls[c].t # calls[d].t
    /\ \A c \in DOMAIN calls : calls[c].received \subseteq {calls[c].t}
    /\ \A h \in DOMAIN txs :
          /\ \A c \in txs[h].by : calls[c].t = h
          /\ txs[h].closedBy # 0 => calls[txs[h].closedBy].t = h
    /\ \A c \in DOMAIN calls : \A r \in calls[c].rows :
          r.id \in DOMAIN db[r.table] <=> calls[c].result.state = "resolved"

\* Two calls interleave: the first has committed its rows while the second,
\* begun before that commit, has rolled back its own.
C26_Witness ==
    /\ Len(calls) = 2
    /\ calls[1].result.state = "resolved" /\ calls[1].rows # {}
    /\ calls[2].result.state = "rejected" /\ calls[2].rows # {}
    /\ txs[calls[2].t].state = "rolledback"
    /\ calls[2].t < calls[1].t

\* C27: when a call of the service can take no further step, the promise it
\* returned has resolved or rejected and the transaction it opened, if any, has
\* been committed or rolled back: no call is left pending and no transaction
\* is left open, whichever of begin, the work or commit failed.
C27_ClosedAndSettled ==
    (call.entry # "none" /\ ~ENABLED OpsNext)
        => /\ result.state \in {"resolved", "rejected"}
           /\ txState \in {"none", "committed", "rolledback"}

\* The operations that run their work in a transaction of their own.
Transactional ==
    call.entry \in {"persist", "deleteAll", "createSubResources", "deleteSubResources"}

\* C28: on the transaction of persist, deleteAll or createSubResources at most
\* one of commit and rollback is requested, and once: after the request the
\* call only waits for it to settle and then is done; a transaction leaves the
\* open state once, by the request made; no rollback follows a commit request,
\* failed or not; the promise resolves only with the transaction committed.
C28_CommitRollbackExclusive ==
    [][Transactional' =>
        /\ ~("commit" \in ops' /\ "rollback" \in ops')
        /\ pc = "commit" => pc' \in {"commit", "done"}
        /\ pc = "rollback" => pc' \in {"rollback", "done"}
        /\ pc = "done" => (pc' = "done" /\ txState' = txState /\ result' = result)
        /\ txState' # txState =>
              \/ txState = "none" /\ txState' = "open"
              \/ /\ txState = "open" /\ pc' = "done"
                 /\ \/ pc = "commit" /\ txState' \in {"committed", "commitFailed"}
                    \/ pc = "rollback" /\ txState' \in {"rolledback", "rollbackFailed"}
        /\ txState' \in {"committed", "commitFailed"} => "rollback" \notin ops'
        /\ txState' \in {"rolledback", "rollbackFailed"} => "commit" \notin ops'
        /\ result'.state = "resolved" => txState' = "committed"
      ]_vars

\* A commit has failed: the call is rejected and no rollback was requested.
C28_Witness ==
    /\ Transactional
    /\ txState = "commitFailed"
    /\ result = Rejected(StoreError("commit"))
    /\ "commit" \in ops /\ "rollback" \notin ops
    /\ pc = "done"

\* Rollback of a persist call has been requested because an entry task failed.
BatchRolledBack ==
    /\ IsPersist
    /\ "rollback" \in ops
    /\ \E i \in DOMAIN entries : entries[i] = "failed"

\* C29 as stated: once the rollback of a persist transaction has been requested
\* because an entry task failed, no write completes on the transaction (its
\* writes change only by being discarded when the rollback settles), and no
\* later task is started.
C29_NoWriteAfterRollback ==
    [][BatchRolledBack =>
         /\ txw' = txw \/ (pc = "rollback" /\ pc' = "done" /\ txw' = NoWrites)
         /\ idx' = idx
      ]_vars

\* C29 amended: once the rollback has been requested because an entry task
\* failed, no later top-level task is started and commit is never requested;
\* an entry task still in flight may complete its write on the handle only
\* while the transaction is open, and no write made on the handle is ever
\* committed.
C29_NothingCommittedAfterRollback ==
    [][BatchRolledBack =>
         /\ idx' = idx /\ tasks' = tasks
         /\ pc' \in {"rollback", "done"}
         /\ "commit" \notin ops'
         /\ txState' # "committed"
         /\ txw' \notin {txw, NoWrites} => (txState = "open" /\ pc' = pc)
         /\ db'.User = Seed.User
         /\ DOMAIN db'.Task = DOMAIN Seed.Task
         /\ \A k \in DOMAIN Seed.Task : db'.Task[k].name = Seed.Task[k].name
      ]_vars

\* The first entry of a batch has failed and rollback is pending, while the
\* second entry's write has completed on the handle.
C29_Witness ==
    /\ BatchRolledBack
    /\ pc = "rollback"
    /\ entries = <<"failed", "ok">>
    /\ EntryOp(Items[2]) = "create:Task"
    /\ DOMAIN txw.Task # {}

\* The sub-resource rows deleteSubResources is asked to remove: those of the
\* parent that match the rest of the caller's where clause.
InScope ==
    {k \in DOMAIN Seed.Task :
        /\ Seed.Task[k].fk = call.data.id
        /\ call.data.asked.id # NoId => k = call.data.asked.id
        /\ call.data.asked.name # NoName => Seed.Task[k].name = call.data.asked.name}

\* C30: deleteSubResources removes only sub-resource rows whose foreign key is
\* the parent's id, whatever the caller's where clause holds for that field:
\* inside the transaction and in the committed rows nothing else is removed or
\* changed, the parent's table is unchanged, a resolved call has removed exactly
\* the parent's rows that match the rest of the clause, and with the parent
\* absent the call rejects with nothing deleted.
C30_DeleteScope ==
    (call.entry = "deleteSubResources" /\ call.data.sub = "Task") =>
        /\ db.User = Seed.User
        /\ txdel.User = {} /\ txdel.Task \subseteq InScope
        /\ \A k \in DOMAIN db.Task : k \in DOMAIN Seed.Task /\ db.Task[k] = Seed.Task[k]
        /\ (DOMAIN Seed.Task \ DOMAIN db.Task) \subseteq InScope
        /\ result.state = "resolved" => DOMAIN db.Task = DOMAIN Seed.Task \ InScope
        /\ result.state # "resolved" => db = Seed
        /\ call.data.id \notin DOMAIN Seed.User
              => /\ db = Seed /\ txState = "none"
                 /\ Settled => result = Rejected(NotFoundError) \/ faulted

\* The caller asked for the rows of parent 2; the rows of parent 1, named by
\* the id argument, were removed instead and the unlinked row was kept.
C30_Witness ==
    /\ call.entry = "deleteSubResources"
    /\ call.data.id = 1 /\ call.data.asked.fk = 2 /\ call.data.asked.id = NoId
    /\ result.state = "resolved"
    /\ DOMAIN db.Task = {2}
    /\ value = Count(1)

====
